---- MODULE Spec2Model ----
(***************************************************************************)
(* A model of pollevbot's Poll session (src/src/poll.py): the hashcode     *)
(* kept by the session, the SSO login handshake, the channel registration, *)
(* the poll detection (is_open), the response submission (answer_poll,     *)
(* clear_responses) and the run loop that drives them.                     *)
(*                                                                         *)
(* Every method of Poll is one operator that maps the state it reads and   *)
(* the answers of the remote service to the state it leaves and the list   *)
(* of HTTP requests it issued; every step of run is one action.  The       *)
(* remote service (and the wall clock) is the environment: its answers are *)
(* chosen with \E from the sets below.                                     *)
(***************************************************************************)
EXTENDS Integers, Sequences, FiniteSets, TLC

(* ------------------------------ bounds --------------------------------- *)
\* Longest option list a poll detail response carries.
MaxOpts == 2
\* Clock ticks (half milliseconds) that pass between the construction of
\* the session and reset_hashcode, which three round trips separate.
Elapsed == 1

(* ------------------------- values of the model -------------------------- *)
\* Python's None, for the token fields.
None == "None"
\* Python's None, for self.uid (uids are the positive numbers of Uids).
NoUid == 0
\* The hc field of a request whose URL embeds no hashcode.
NoHc == 0 - 1
\* Marks an answer of the environment that the method never came to read.
Unused == "unused"

\* Poll uids the status endpoint may report.
Uids == {1, 2}
\* Wall-clock readings (in half milliseconds) at construction time.
StartTicks == {1}
\* Id of the first option of a poll (the following options count up from it).
FirstIds == {500}
\* The lists of ids of the user's existing responses the service may return.
RespLists == {<<>>, <<8, 7>>}
\* Values of an option's `correct` field; "absent" is a missing key.
Flags == {"true", "false", "absent"}

VARIABLES
    pc,                 \* position of run: the step it executes next
    now,                \* the last wall-clock reading (half milliseconds)
    hashcode,           \* self.hashcode
    auth_token,         \* self.auth_token
    firehose_token,     \* self.firehose_token
    uid,                \* self.uid
    has_correct_ans,    \* self.has_correct_ans
    correct_ans_index,  \* self.correct_ans_index
    cookies,            \* names of the cookies set by connect_to_channel
    wait_to_respond,    \* run's parameter (seconds)
    clear_responses,    \* run's parameter
    run_forever,        \* run's parameter
    ignore_prev_polls,  \* run's parameter
    call,               \* the most recent method call: inputs, requests, outcome
    prev_hc,            \* last hashcode embedded in a request before `call`
    n_login,            \* calls of login_to_myUW made by run so far
    n_connect,          \* calls of connect_to_channel made by run so far
    since_check,        \* what run did since its last status check
    submitted,          \* the uids a submission request was sent for
    last_sub            \* the uid of the last submission request sent

vars ==
    <<pc, now, hashcode, auth_token, firehose_token, uid, has_correct_ans,
      correct_ans_index, cookies, wait_to_respond, clear_responses,
      run_forever, ignore_prev_polls, call, prev_hc, n_login, n_connect,
      since_check, submitted, last_sub>>

params == <<wait_to_respond, clear_responses, run_forever, ignore_prev_polls>>

\* What is recorded of the submissions sent.
sent == <<submitted, last_sub>>

(* ------------------------------ hashcode -------------------------------- *)
\* round(time.time() * 1000) for a clock reading of t half milliseconds:
\* Python rounds a value halfway between two integers to the even one.
Round(t) ==
    LET k == t \div 2
    IN  IF t % 2 = 0 THEN k
        ELSE IF k % 2 = 0 THEN k ELSE k + 1

\* What increment_hashcode's wrapper would do to the hashcode h around a
\* request: the request runs first, and only a request that returns adds one.
HashcodeWrapped(h, raised) ==
    IF raised THEN h ELSE h + 1

\* The hashcode after a request made through self.get / self.post /
\* self.head when it was h before.  __init__ computes the wrapped functions
\* but binds each to the loop variable `func` only, so the session's own
\* methods stay unwrapped and a request leaves the hashcode alone.
HashcodeAfterRequest(h, raised) ==
    h

\* A request as issued: its endpoint, the hashcode embedded in its URL
\* (NoHc when the URL has none), the uid and the further id formatted into
\* its URL, and self.hashcode right before and right after the call.
Req(kind, hc, u, arg, h, raised) ==
    [kind |-> kind, hc |-> hc, uid |-> u, arg |-> arg,
     before |-> h, after |-> HashcodeAfterRequest(h, raised)]

\* reset_hashcode, as an entry of a call's log: the hashcode it replaces and
\* the one it stores for the clock reading t.
reset_hashcode(h, t) ==
    [kind |-> "reset_hashcode", hc |-> NoHc, uid |-> NoUid, arg |-> 0,
     before |-> h, after |-> Round(t)]

\* The outcome of a method call.
Result(log, exc, ret, h) ==
    [log |-> log, exc |-> exc, ret |-> ret, hashcode |-> h]

(* --------------------------- login_to_myUW ------------------------------ *)
\* What the login entry point may answer.
SamlOutcomes == {"raise", "no_form", "no_action", "no_jsessionid", "ok"}
\* What the identity provider may answer to the credentials.
IdpOutcomes == {"raise", "no_assertion", "hidden_no_value", "assertion"}
\* What the callback may answer.
CallbackOutcomes == {"raise", "no_token", "token"}
\* What the CSRF endpoint may answer.
CsrfOutcomes == {"raise", "no_token", "token"}
\* What a request whose response is not read may do.
PlainOutcomes == {"raise", "ok"}

\* The test of the hidden input left out (the mutant of SamlResponseFound).
SamlResponseAssumed(idp) ==
    TRUE

\* `if saml_response:` the identity provider's page has a hidden input.
SamlResponseFound(idp) ==
    idp \in {"hidden_no_value", "assertion"}

\* login_to_myUW with the session's hashcode h, the answers env of the remote
\* side and the clock reading env.t taken by reset_hashcode.
login_to_myUW(env, h) ==
    LET q1 == Req("SAML_REQ", NoHc, NoUid, 0, h, env.saml = "raise")
        \* session_id is the list re.findall returns: empty without a match.
        sid == IF env.saml = "ok" THEN 1 ELSE 0
        q2 == Req("UW_LOGIN", NoHc, NoUid, sid, q1.after, env.idp = "raise")
        q3 == Req("CALLBACK", NoHc, NoUid, 0, q2.after, env.cb = "raise")
        rs == reset_hashcode(q3.after, env.t)
        q4 == Req("CSRF", rs.after, NoUid, 0, rs.after, env.csrf = "raise")
        q5 == Req("P_AUTH", NoHc, NoUid, 0, q4.after, env.pauth = "raise")
        Fail(log, exc, tok) ==
            Result(log, exc, "raised", log[Len(log)].after) @@ [auth_token |-> tok]
    IN  IF env.saml = "raise" THEN Fail(<<q1>>, "RequestException", None)
        ELSE IF env.saml = "no_form" THEN Fail(<<q1>>, "AttributeError", None)
        ELSE IF env.saml = "no_action" THEN Fail(<<q1>>, "TypeError", None)
        ELSE IF env.idp = "raise" THEN Fail(<<q1, q2>>, "RequestException", None)
        ELSE IF ~SamlResponseFound(env.idp) THEN Fail(<<q1, q2>>, "SystemExit", None)
        ELSE IF env.idp = "hidden_no_value" THEN Fail(<<q1, q2>>, "KeyError", None)
        ELSE IF env.cb = "raise" THEN Fail(<<q1, q2, q3>>, "RequestException", None)
        ELSE IF env.cb = "no_token" THEN Fail(<<q1, q2, q3>>, "IndexError", None)
        ELSE IF env.csrf = "raise"
            THEN Fail(<<q1, q2, q3, rs, q4>>, "RequestException", "tok")
        ELSE IF env.csrf = "no_token"
            THEN Fail(<<q1, q2, q3, rs, q4>>, "KeyError", "tok")
        ELSE IF env.pauth = "raise"
            THEN Fail(<<q1, q2, q3, rs, q4, q5>>, "RequestException", "tok")
        ELSE Result(<<q1, q2, q3, rs, q4, q5>>, "none", "returned", q5.after)
                @@ [auth_token |-> "tok"]

\* The kinds of the entries of a log.
Kinds(log) ==
    {log[i].kind : i \in DOMAIN log}

\* An answer is Unused exactly when the call issued no request that reads it.
Consumed(answer, kind, log) ==
    (answer = Unused) <=> (kind \notin Kinds(log))

(* ------------------------- connect_to_channel --------------------------- *)
\* What the registration endpoint may answer: no JSON key, a null token (a
\* host that is not affiliated), an empty token, a token.
RegistrationOutcomes == {"raise", "no_key", "null", "empty", "token"}

\* The two visitor cookies connect_to_channel sets before its request.
VisitorCookies == {"pollev_visitor", "pollev_visit"}

\* connect_to_channel with the session's hashcode h.
connect_to_channel(reg, h) ==
    LET q == Req("REGISTRATION", h, NoUid, 0, h, reg = "raise")
        fh == IF reg = "null" THEN None ELSE IF reg = "empty" THEN "" ELSE "fh"
    IN  IF reg = "raise"
            THEN Result(<<q>>, "RequestException", "raised", q.after)
                    @@ [firehose_token |-> None]
        ELSE IF reg = "no_key"
            THEN Result(<<q>>, "KeyError", "raised", q.after)
                    @@ [firehose_token |-> None]
        ELSE Result(<<q>>, "none", "returned", q.after)
                @@ [firehose_token |-> fh]

(* ------------------------------ is_open --------------------------------- *)
\* What the status endpoint may answer: nothing in time (while connecting
\* or while reading), a connection error, an envelope without `message`, a
\* `message` that is empty, null or no JSON, an inner object without `uid`,
\* or an inner object with a uid.
StatusTags ==
    {"read_timeout", "connect_timeout", "connection_error", "no_message",
     "message_empty", "message_null", "message_undecodable", "no_uid"}

StatusOutcomes ==
    {[tag |-> g, uid |-> NoUid] : g \in StatusTags}
        \cup {[tag |-> "uid", uid |-> u] : u \in Uids}

\* The exception lines 130-134 raise on a status answer ("none": a uid was
\* read).
StatusException(tag) ==
    IF tag = "read_timeout" THEN "ReadTimeout"
    ELSE IF tag = "connect_timeout" THEN "ConnectTimeout"
    ELSE IF tag = "connection_error" THEN "ConnectionError"
    ELSE IF tag \in {"no_message", "no_uid"} THEN "KeyError"
    ELSE IF tag \in {"message_empty", "message_undecodable"} THEN "JSONDecodeError"
    ELSE IF tag = "message_null" THEN "TypeError"
    ELSE "none"

\* `except (requests.exceptions.ReadTimeout, KeyError)`.
Caught(exc) ==
    exc \in {"ReadTimeout", "KeyError"}

\* A test for None only (the mutant of HasToken).
HasTokenNotNone(fh) ==
    fh # None

\* `if self.firehose_token:` a token that is neither None nor empty.
HasToken(fh) ==
    fh \notin {None, ""}

\* The poll just observed counts as an old one (the mutant of IsPrevPoll).
IsPrevPollNever(ignore, u, new_uid) ==
    FALSE

\* `if ignore_prev_polls and self.uid == new_uid`.
IsPrevPoll(ignore, u, new_uid) ==
    ignore /\ u = new_uid

\* self.uid after lines 139-143: kept for an old poll, replaced otherwise.
StoredUid(prev, u, new_uid) ==
    IF prev THEN u ELSE new_uid

\* is_open with the observed uid stored before it is compared with the
\* stored one (the mutant of is_open): every poll then looks like an old one.
is_open_stores_first(obs, ignore, fh, u, h) ==
    LET exc == StatusException(obs.tag)
        q == Req(IF HasToken(fh) THEN "TOKEN_UID" ELSE "NO_TOKEN_UID", h, NoUid,
                 0, h, obs.tag \in {"read_timeout", "connect_timeout",
                                    "connection_error"})
        prev == IsPrevPoll(ignore, obs.uid, obs.uid)
    IN  IF exc # "none" /\ Caught(exc)
            THEN Result(<<q>>, "none", "false", q.after) @@ [uid |-> u]
        ELSE IF exc # "none"
            THEN Result(<<q>>, exc, "raised", q.after) @@ [uid |-> u]
        ELSE Result(<<q>>, "none", IF prev THEN "false" ELSE "true", q.after)
                @@ [uid |-> obs.uid]

\* is_open(ignore_prev_polls = ignore) on the status answer obs, with the
\* session's firehose token fh, uid u and hashcode h.
is_open(obs, ignore, fh, u, h) ==
    LET exc == StatusException(obs.tag)
        q == Req(IF HasToken(fh) THEN "TOKEN_UID" ELSE "NO_TOKEN_UID", h, NoUid,
                 0, h, obs.tag \in {"read_timeout", "connect_timeout",
                                    "connection_error"})
        prev == IsPrevPoll(ignore, u, obs.uid)
    IN  IF exc # "none" /\ Caught(exc)
            THEN Result(<<q>>, "none", "false", q.after) @@ [uid |-> u]
        ELSE IF exc # "none"
            THEN Result(<<q>>, exc, "raised", q.after) @@ [uid |-> u]
        ELSE Result(<<q>>, "none", IF prev THEN "false" ELSE "true", q.after)
                @@ [uid |-> StoredUid(prev, u, obs.uid)]

(* ---------------------- clear_responses, answer_poll -------------------- *)
\* What the response-list endpoint may answer.
ListOutcomes ==
    {[tag |-> "raise", ids |-> <<>>]} \cup {[tag |-> "ok", ids |-> l] : l \in RespLists}

UnusedList == [tag |-> Unused, ids |-> <<>>]

\* self.hashcode after the requests of log, when it was h before them.
HashcodeAfter(h, log) ==
    IF log = <<>> THEN h ELSE log[Len(log)].after

\* The id of the last listed response (the mutant of FirstResponseId).
LastResponseId(ids) ==
    ids[Len(ids)]

\* `r.json()[0]['id']`: the id of the first listed response.
FirstResponseId(ids) ==
    ids[1]

\* clear_responses for the stored uid u with the session's hashcode h; env
\* holds the answers to the CSRF fetch (ccsrf), the response list (clist)
\* and the delete-override request (cdel).
ClearResponses(env, u, h) ==
    LET q1 == Req("CSRF", h, NoUid, 0, h, env.ccsrf = "raise")
        q2 == Req("RESPONSE_UID", q1.after, u, 0, q1.after, env.clist.tag = "raise")
        q3 == Req("POLL_RESULTS", NoHc, NoUid, FirstResponseId(env.clist.ids), q2.after,
                  env.cdel = "raise")
    IN  IF env.ccsrf = "raise"
            THEN Result(<<q1>>, "RequestException", "raised", q1.after)
        ELSE IF env.ccsrf = "no_token"
            THEN Result(<<q1>>, "KeyError", "raised", q1.after)
        ELSE IF env.clist.tag = "raise"
            THEN Result(<<q1, q2>>, "RequestException", "raised", q2.after)
        ELSE IF env.clist.ids = <<>>
            THEN Result(<<q1, q2>>, "none", "returned", q2.after)
        ELSE IF env.cdel = "raise"
            THEN Result(<<q1, q2, q3>>, "RequestException", "raised", q3.after)
        ELSE Result(<<q1, q2, q3>>, "none", "returned", q3.after)

\* The option list of a poll: ids count up from the first option's id, and
\* each option carries its `correct` flag.
Options(first, flags) ==
    [i \in 1 .. Len(flags) |-> [id |-> first + i - 1, correct |-> flags[i]]]

FlagLists ==
    UNION {[1 .. n -> Flags] : n \in 0 .. MaxOpts}

\* What the poll detail endpoint may answer: a failure, a document without
\* `multiple_choice_poll`, or a poll with its options.
PollDetails ==
    {[tag |-> g, options |-> <<>>] : g \in {"raise", "no_poll"}}
        \cup {[tag |-> "ok", options |-> Options(f, fl)] :
                f \in FirstIds, fl \in FlagLists}

UnusedDetail == [tag |-> Unused, options |-> <<>>]

\* The for loop of answer_poll from option i on: it stops at the first
\* option whose `correct` is True, and reading a missing `correct` raises.
RECURSIVE ScanFrom(_, _)
ScanFrom(opts, i) ==
    IF i > Len(opts) THEN [exc |-> "none", found |-> FALSE, index |-> 0]
    ELSE IF opts[i].correct = "absent"
        THEN [exc |-> "KeyError", found |-> FALSE, index |-> 0]
    ELSE IF opts[i].correct = "true"
        THEN [exc |-> "none", found |-> TRUE, index |-> i - 1]
    ELSE ScanFrom(opts, i + 1)

\* Lines 167-177 once the poll detail request has returned: the option
\* list is read and scanned, and a correct option found is recorded in
\* self.correct_ans_index / self.has_correct_ans (which are set nowhere
\* else after __init__).
select(info, has, idx) ==
    LET scan == ScanFrom(info.options, 1)
    IN  IF info.tag = "no_poll" THEN [exc |-> "KeyError", has |-> has, idx |-> idx]
        ELSE IF info.options = <<>>
            THEN [exc |-> "IndexError", has |-> has, idx |-> idx]
        ELSE IF scan.exc # "none" THEN [exc |-> scan.exc, has |-> has, idx |-> idx]
        ELSE IF scan.found THEN [exc |-> "none", has |-> TRUE, idx |-> scan.index]
        ELSE [exc |-> "none", has |-> has, idx |-> idx]

\* What the submission endpoint may answer.
PostOutcomes == {"raise", "200", "422"}
\* Whether the poll detail carries the `title` that is printed.
Titles == {"present", "absent"}

\* The report with a rejected submission turned into an error, as
\* r.raise_for_status() would (the mutant of report).
report_raising(title, status, has, idx, n) ==
    IF title = "absent" THEN "KeyError"
    ELSE IF status = 422 THEN "HTTPError"
    ELSE IF has /\ idx >= n THEN "IndexError"
    ELSE "none"

\* The exception raised by the terminal output of lines 184-195 ("none": it
\* completes): the title is printed first; a 422 is reported and nothing
\* else is read; otherwise, with has_correct_ans set, option correct_ans_index
\* of the n fetched options is read.
report(title, status, has, idx, n) ==
    IF title = "absent" THEN "KeyError"
    ELSE IF status = 422 THEN "none"
    ELSE IF has /\ idx >= n THEN "IndexError"
    ELSE "none"

\* answer_poll(clear_responses = clear) for the stored uid u, with the
\* session's hashcode h and its has_correct_ans / correct_ans_index.
answer_poll(env, clear, u, h, has, idx) ==
    LET c == IF clear THEN ClearResponses(env, u, h)
             ELSE Result(<<>>, "none", "returned", h)
        q4 == Req("POLLEV_INFO", c.hashcode, u, 0, c.hashcode, env.info.tag = "raise")
        sel == select(env.info, has, idx)
        q5 == Req("CSRF", q4.after, NoUid, 0, q4.after, env.csrf = "raise")
        q6 == Req("SEND_RESPONSE", NoHc, u, env.info.options[1].id + sel.idx,
                  q5.after, env.post = "raise")
        status == IF env.post = "422" THEN 422 ELSE 200
        Out(log, exc, hs, ix, st) ==
            Result(c.log \o log, exc, IF exc = "none" THEN "returned" ELSE "raised",
                   HashcodeAfter(c.hashcode, log))
                @@ [has |-> hs, idx |-> ix, status |-> st]
    IN  IF c.exc # "none" THEN Out(<<>>, c.exc, has, idx, 0)
        ELSE IF env.info.tag = "raise"
            THEN Out(<<q4>>, "RequestException", has, idx, 0)
        ELSE IF sel.exc # "none" THEN Out(<<q4>>, sel.exc, sel.has, sel.idx, 0)
        ELSE IF env.csrf = "raise"
            THEN Out(<<q4, q5>>, "RequestException", sel.has, sel.idx, 0)
        ELSE IF env.csrf = "no_token"
            THEN Out(<<q4, q5>>, "KeyError", sel.has, sel.idx, 0)
        ELSE IF env.post = "raise"
            THEN Out(<<q4, q5, q6>>, "RequestException", sel.has, sel.idx, 0)
        ELSE Out(<<q4, q5, q6>>,
                 report(env.title, status, sel.has, sel.idx, Len(env.info.options)),
                 sel.has, sel.idx, status)

\* The answers to clear_responses' requests: none when it is not called,
\* and none to a request it does not come to issue.
ClearEnvs(clear) ==
    IF ~clear
    THEN {[ccsrf |-> Unused, clist |-> UnusedList, cdel |-> Unused]}
    ELSE {e \in [ccsrf : CsrfOutcomes, clist : ListOutcomes \cup {UnusedList},
                 cdel : PlainOutcomes \cup {Unused}] :
            LET log == ClearResponses(e, NoUid, 0).log
            IN  /\ (e.clist = UnusedList) <=> ("RESPONSE_UID" \notin Kinds(log))
                /\ Consumed(e.cdel, "POLL_RESULTS", log)}

\* The answers to the requests that follow the poll detail: none to a
\* request that an earlier failure keeps from being issued.
SubmitEnvs ==
    {e \in [csrf : CsrfOutcomes, post : PostOutcomes \cup {Unused},
            title : Titles \cup {Unused}] :
        /\ (e.post = Unused) <=> (e.csrf # "token")
        /\ (e.title = Unused) <=> (e.post \notin {"200", "422"})}

UnusedSubmit == [csrf |-> Unused, post |-> Unused, title |-> Unused]

(* ------------------------------- run ------------------------------------ *)
\* The last hashcode embedded in a request, given the one before the log.
LastHc(h0, log) ==
    LET idx == {i \in DOMAIN log : log[i].hc # NoHc}
    IN  IF idx = {} THEN h0
        ELSE log[CHOOSE i \in idx : \A j \in idx : j <= i].hc

\* The record kept of a method call.
Call(op, env, u0, r) ==
    [op |-> op, env |-> env, uid0 |-> u0, log |-> r.log, exc |-> r.exc,
     ret |-> r.ret]

\* A handler for request failures only (the mutant of Swallowed).
SwallowedRequestsOnly(exc) ==
    exc \in {"RequestException", "ReadTimeout", "ConnectTimeout", "ConnectionError"}

\* `except Exception`: what run's handler catches.  SystemExit and
\* KeyboardInterrupt derive from BaseException only.
Swallowed(exc) ==
    exc \notin {"SystemExit", "KeyboardInterrupt"}

\* The whole of run wrapped in the loop (the mutant of AfterException).
AfterExceptionRelogin ==
    "login"

\* Where run continues after `except Exception: pass`: `while True` starts
\* the try block again, with a new status check.
AfterException ==
    "is_open"

\* Where run goes after an exception exc raised inside the try block.
AfterRaise(exc) ==
    IF Swallowed(exc) THEN AfterException ELSE "crashed"

\* The grace sleep left out (the mutant of AfterCheck).
AfterCheckNoGrace(ret, exc, wait) ==
    IF ret = "raised" THEN AfterRaise(exc)
    ELSE IF ret = "false" THEN "sleep_delay"
    ELSE "answer_poll"

\* Where run goes after the status check of `while not self.is_open(...)`:
\* False leads to the sleep of the loop body, True leaves the loop, to the
\* grace sleep when `wait_to_respond is not 0`.
AfterCheck(ret, exc, wait) ==
    IF ret = "raised" THEN AfterRaise(exc)
    ELSE IF ret = "false" THEN "sleep_delay"
    ELSE IF wait # 0 THEN "sleep_wait"
    ELSE "answer_poll"

\* The break left out (the mutant of AfterAnswer).
AfterAnswerNoBreak(exc, forever) ==
    IF exc # "none" THEN AfterRaise(exc)
    ELSE "is_open"

\* Where run goes after answer_poll: `if not run_forever: break` when it
\* returned, the exception handler when it raised.
AfterAnswer(exc, forever) ==
    IF exc # "none" THEN AfterRaise(exc)
    ELSE IF ~forever THEN "returned"
    ELSE "is_open"

\* The uids of the submission requests of a log.
SubmittedUids(log) ==
    {log[i].uid : i \in {j \in DOMAIN log : log[j].kind = "SEND_RESPONSE"}}

\* The session after Poll.__init__, and run about to start with any
\* arguments.
Init ==
    /\ pc = "login"
    /\ now \in StartTicks
    /\ hashcode = Round(now)
    /\ auth_token = None
    /\ firehose_token = None
    /\ uid = NoUid
    /\ has_correct_ans = FALSE
    /\ correct_ans_index = 0
    /\ cookies = {}
    /\ wait_to_respond \in {0, 5}
    /\ clear_responses \in BOOLEAN
    /\ run_forever \in BOOLEAN
    /\ ignore_prev_polls \in BOOLEAN
    /\ call = [op |-> "init", env |-> Unused, uid0 |-> NoUid, log |-> <<>>,
               exc |-> "none", ret |-> "returned"]
    /\ prev_hc = NoHc
    /\ n_login = 0
    /\ n_connect = 0
    /\ since_check = {}
    /\ submitted = {}
    /\ last_sub = NoUid

\* run: self.login_to_myUW().  It is outside run's try block, so whatever
\* it raises ends run.
RunLogin ==
    /\ pc = "login"
    /\ \E saml \in SamlOutcomes, idp \in IdpOutcomes \cup {Unused},
          cb \in CallbackOutcomes \cup {Unused},
          csrf \in CsrfOutcomes \cup {Unused},
          pauth \in PlainOutcomes \cup {Unused},
          t \in {now, now + Elapsed} :
          LET env == [saml |-> saml, idp |-> idp, cb |-> cb, csrf |-> csrf,
                      pauth |-> pauth, t |-> t]
              r == login_to_myUW(env, hashcode)
              reset == "reset_hashcode" \in Kinds(r.log)
          IN  /\ Consumed(idp, "UW_LOGIN", r.log)
              /\ Consumed(cb, "CALLBACK", r.log)
              /\ Consumed(csrf, "CSRF", r.log)
              /\ Consumed(pauth, "P_AUTH", r.log)
              /\ reset <=> (t # now)
              /\ call' = Call("login_to_myUW", env, uid, r)
              /\ hashcode' = r.hashcode
              /\ auth_token' = r.auth_token
              /\ now' = t
              /\ pc' = IF r.exc = "none" THEN "connect" ELSE "crashed"
    /\ prev_hc' = LastHc(prev_hc, call.log)
    /\ n_login' = n_login + 1
    /\ UNCHANGED <<firehose_token, uid, has_correct_ans, correct_ans_index,
                   cookies, params, n_connect, since_check, sent>>

\* run: self.connect_to_channel(), outside the try block as well.
RunConnect ==
    /\ pc = "connect"
    /\ \E reg \in RegistrationOutcomes :
          LET r == connect_to_channel(reg, hashcode)
          IN  /\ call' = Call("connect_to_channel", [reg |-> reg], uid, r)
              /\ hashcode' = r.hashcode
              /\ firehose_token' = r.firehose_token
              /\ pc' = IF r.exc = "none" THEN "is_open" ELSE "crashed"
    /\ cookies' = cookies \cup VisitorCookies
    /\ prev_hc' = LastHc(prev_hc, call.log)
    /\ n_connect' = n_connect + 1
    /\ since_check' = {"connect"}
    /\ UNCHANGED <<now, auth_token, uid, has_correct_ans, correct_ans_index,
                   params, n_login, sent>>

\* run: the test of `while not self.is_open(...)`.  A check that returns
\* False leads to the sleep in the loop body, one that returns True leaves
\* the loop (to the grace sleep when `wait_to_respond is not 0`), and an
\* exception is swallowed by `except Exception: pass`, after which the
\* outer loop starts over with a new check.
RunIsOpen ==
    /\ pc = "is_open"
    /\ \E obs \in StatusOutcomes :
          LET r == is_open(obs, ignore_prev_polls, firehose_token, uid, hashcode)
          IN  /\ call' = Call("is_open", obs, uid, r)
                            @@ [uid1 |-> r.uid]
              /\ hashcode' = r.hashcode
              /\ uid' = r.uid
              /\ pc' = AfterCheck(r.ret, r.exc, wait_to_respond)
    /\ prev_hc' = LastHc(prev_hc, call.log)
    /\ since_check' = {}
    /\ UNCHANGED <<now, auth_token, firehose_token, has_correct_ans,
                   correct_ans_index, cookies, params, n_login, n_connect, sent>>

\* run: time.sleep(delay) in the body of the inner loop.
RunSleepDelay ==
    /\ pc = "sleep_delay"
    /\ pc' = "is_open"
    /\ since_check' = since_check \cup {"delay"}
    /\ UNCHANGED <<now, hashcode, auth_token, firehose_token, uid,
                   has_correct_ans, correct_ans_index, cookies, params, call,
                   prev_hc, n_login, n_connect, sent>>

\* run: time.sleep(wait_to_respond) before the poll is answered.
RunSleepWait ==
    /\ pc = "sleep_wait"
    /\ pc' = "answer_poll"
    /\ since_check' = since_check \cup {"wait"}
    /\ UNCHANGED <<now, hashcode, auth_token, firehose_token, uid,
                   has_correct_ans, correct_ans_index, cookies, params, call,
                   prev_hc, n_login, n_connect, sent>>

\* run: self.answer_poll(clear_responses=clear_responses), then `if not
\* run_forever: break`.  An exception skips the break and is swallowed.
RunAnswerPoll ==
    /\ pc = "answer_poll"
    /\ \E cenv \in ClearEnvs(clear_responses) :
       \E info \in (IF clear_responses /\ ClearResponses(cenv, uid, hashcode).exc # "none"
                    THEN {UnusedDetail} ELSE PollDetails) :
       \E senv \in (IF info.tag \in {Unused, "raise"}
                       \/ select(info, has_correct_ans, correct_ans_index).exc # "none"
                    THEN {UnusedSubmit} ELSE SubmitEnvs) :
          LET env == cenv @@ [info |-> info] @@ senv
              r == answer_poll(env, clear_responses, uid, hashcode,
                               has_correct_ans, correct_ans_index)
              subs == SubmittedUids(r.log)
          IN  /\ call' = Call("answer_poll", env, uid, r)
                            @@ [status |-> r.status]
              /\ hashcode' = r.hashcode
              /\ has_correct_ans' = r.has
              /\ correct_ans_index' = r.idx
              /\ pc' = AfterAnswer(r.exc, run_forever)
              /\ since_check' = since_check \cup (IF subs = {} THEN {} ELSE {"submit"})
              /\ submitted' = submitted \cup subs
              /\ last_sub' = IF subs = {} THEN last_sub ELSE uid
    /\ prev_hc' = LastHc(prev_hc, call.log)
    /\ UNCHANGED <<now, auth_token, firehose_token, uid, cookies, params,
                   n_login, n_connect>>

Next ==
    \/ RunLogin
    \/ RunConnect
    \/ RunIsOpen
    \/ RunSleepDelay
    \/ RunSleepWait
    \/ RunAnswerPoll

Spec == Init /\ [][Next]_vars

(* ------------------------------ properties ------------------------------ *)
\* The entries of the last call's log that are requests.
Requests ==
    SelectSeq(call.log, LAMBDA e : e.kind # "reset_hashcode")

\* The submission requests of the last call.
Submissions ==
    SelectSeq(call.log, LAMBDA e : e.kind = "SEND_RESPONSE")

\* The option list the last answer_poll call fetched.
FetchedOptions ==
    call.env.info.options

\* Index of the first option flagged correct, 0 when there is none.
RECURSIVE FirstCorrectFrom(_, _)
FirstCorrectFrom(opts, i) ==
    IF i > Len(opts) THEN 0
    ELSE IF opts[i].correct = "true" THEN i - 1
    ELSE FirstCorrectFrom(opts, i + 1)

\* C1: every submission of answer_poll carries the option id first_option_id
\* + chosen_index, where chosen_index is the index of the first option of the
\* fetched poll flagged correct and 0 when no option is flagged correct,
\* whatever polls the session answered before.
C1_ChoiceFromFetchedPollOnly ==
    (call.op = "answer_poll" /\ Submissions # <<>>) =>
        \A i \in DOMAIN Submissions :
            Submissions[i].arg
                = FetchedOptions[1].id + FirstCorrectFrom(FetchedOptions, 1)

\* C2: when every option of the fetched poll lacks its `correct` field,
\* answer_poll does not fail before submitting: it goes on to the CSRF fetch
\* that precedes the submission, and what it submits is the first option's id.
C2_AllAbsentStillSubmits ==
    (/\ call.op = "answer_poll"
     /\ call.env.info.tag = "ok"
     /\ FetchedOptions # <<>>
     /\ \A i \in DOMAIN FetchedOptions : FetchedOptions[i].correct = "absent") =>
        /\ \E i \in DOMAIN call.log :
              call.log[i].kind = "POLLEV_INFO" /\ i < Len(call.log)
        /\ \A i \in DOMAIN Submissions :
              Submissions[i].arg = FetchedOptions[1].id

\* C3: a check with ignore_prev_polls = true whose status response yields a
\* uid returns false and keeps the stored uid when the observed uid equals the
\* stored one, and returns true and stores the observed uid when they differ
\* (so a check that observes the uid a positive check has just stored returns
\* false).
C3_IgnorePrevCheck ==
    (call.op = "is_open" /\ ignore_prev_polls /\ call.env.tag = "uid") =>
        IF call.env.uid = call.uid0
        THEN call.ret = "false" /\ uid = call.uid0
        ELSE call.ret = "true" /\ uid = call.env.uid

\* A check observed the uid stored by an earlier positive check and
\* returned false.
C3_Witness ==
    /\ call.op = "is_open"
    /\ ignore_prev_polls
    /\ call.env.tag = "uid"
    /\ call.uid0 = call.env.uid
    /\ call.ret = "false"

\* C4: is_open does not raise and returns false whenever the status request
\* times out (in any way) or the payload carries no usable uid (`message`
\* missing, empty, null or not decodable, or an inner object without `uid`).
C4_NoUidMeansFalse ==
    (/\ call.op = "is_open"
     /\ call.env.tag \in {"read_timeout", "connect_timeout", "no_message",
                          "message_empty", "message_null", "message_undecodable",
                          "no_uid"}) =>
        call.ret = "false" /\ call.exc = "none"

\* C5: a check that returns false leaves the stored uid as it was.
C5_FalseKeepsUid ==
    (call.op = "is_open" /\ call.ret = "false") => uid = call.uid0

\* A check timed out, and returned false, while a poll uid was stored.
C5_Witness ==
    /\ call.op = "is_open"
    /\ call.env.tag = "read_timeout"
    /\ call.ret = "false"
    /\ call.uid0 \in Uids
    /\ uid = call.uid0

\* C6: after every request issued through the session, whether it returned
\* or raised, the stored hashcode is one greater than right before it.
C6_RequestAddsOne ==
    \A i \in DOMAIN Requests : Requests[i].after = Requests[i].before + 1

\* The hashcodes embedded in the hashcode-bearing requests up to now: the
\* last one before the last call, then those of the last call.
EmbeddedHashcodes ==
    (IF prev_hc = NoHc THEN <<>> ELSE <<prev_hc>>)
        \o [i \in DOMAIN SelectSeq(call.log, LAMBDA e : e.hc # NoHc) |->
                SelectSeq(call.log, LAMBDA e : e.hc # NoHc)[i].hc]

\* C7: the hashcodes embedded in successive hashcode-bearing requests of a
\* session are strictly increasing.
C7_EmbeddedHashcodesIncrease ==
    \A i \in DOMAIN EmbeddedHashcodes :
        i > 1 => EmbeddedHashcodes[i - 1] < EmbeddedHashcodes[i]

\* The reset_hashcode entries of the last call's log.
Resets ==
    SelectSeq(call.log, LAMBDA e : e.kind = "reset_hashcode")

\* C8: with a wall clock that never goes backwards, the value reset_hashcode
\* stores is at least the hashcode held right before the reset.
C8_ResetNeverLowers ==
    \A i \in DOMAIN Resets : Resets[i].after >= Resets[i].before

\* reset_hashcode ran after the three requests that precede it in the
\* handshake, at a later clock reading, and raised the hashcode.
C8_Witness ==
    /\ call.op = "login_to_myUW"
    /\ Len(Requests) >= 3
    /\ \E i \in DOMAIN Resets : Resets[i].after > Resets[i].before

\* C9: when the identity provider's response holds no hidden assertion value,
\* login_to_myUW fails: no callback request is sent, auth_token stays unset,
\* the failure ends run, and run issues no request afterwards (a
\* channel-connect, status-check or submission call is only ever made with an
\* auth_token set).
C9_NoAssertionAbortsRun ==
    /\ (call.op = "login_to_myUW" /\ call.env.idp = "no_assertion") =>
            /\ "CALLBACK" \notin Kinds(call.log)
            /\ call.log[Len(call.log)].kind = "UW_LOGIN"
            /\ auth_token = None
            /\ call.exc = "SystemExit"
            /\ pc = "crashed"
            /\ ~ENABLED Next
    /\ call.op \in {"connect_to_channel", "is_open", "answer_poll"} =>
            auth_token # None

\* The credentials were posted, the answer held no assertion, and run ended.
C9_Witness ==
    /\ call.op = "login_to_myUW"
    /\ call.env.idp = "no_assertion"
    /\ Kinds(call.log) = {"SAML_REQ", "UW_LOGIN"}
    /\ pc = "crashed"

\* C10: the handshake aborts at the first missing field: without a session
\* identifier in the login form's action, without an auth token in the
\* callback's final URL, or without a token in the CSRF response,
\* login_to_myUW fails at that step and issues no later request.
C10_AbortsAtFirstMissingField ==
    call.op = "login_to_myUW" =>
        /\ call.env.saml = "no_jsessionid" =>
                call.exc # "none" /\ call.log[Len(call.log)].kind = "SAML_REQ"
        /\ call.env.cb = "no_token" =>
                call.exc # "none" /\ call.log[Len(call.log)].kind = "CALLBACK"
        /\ call.env.csrf = "no_token" =>
                call.exc # "none" /\ call.log[Len(call.log)].kind = "CSRF"
\* C11: a submission answered with HTTP status 422 (for a poll detail that
\* carries its title) does not raise: answer_poll returns normally and the
\* cycle is complete, so run returns when run_forever is false and goes on to
\* the next detection cycle when it is true.
C11_RejectedSubmissionCompletes ==
    (/\ call.op = "answer_poll"
     /\ call.env.post = "422"
     /\ call.env.title = "present") =>
        /\ call.exc = "none"
        /\ call.ret = "returned"
        /\ call.status = 422
        /\ pc = IF run_forever THEN "is_open" ELSE "returned"

\* A submission was rejected with 422 while the session held a stale correct
\* index past the end of the fetched options, and run_forever was false.
C11_Witness ==
    /\ call.op = "answer_poll"
    /\ call.env.post = "422"
    /\ call.status = 422
    /\ has_correct_ans
    /\ correct_ans_index >= Len(FetchedOptions)
    /\ ~run_forever
    /\ pc = "returned"

\* C12: once login and channel registration have succeeded, no exception
\* raised inside a cycle (by a status check or by answer_poll) ends run: it
\* is swallowed and run stands at the status check of a new cycle, whether
\* run_forever is set or not.
C12_CycleExceptionSwallowed ==
    call.op \in {"is_open", "answer_poll"} =>
        /\ pc # "crashed"
        /\ call.exc # "none" => pc = "is_open"

\* A submission was sent, the report then raised on the stale answer index,
\* and run, told to answer once, is back at the status check.
C12_Witness ==
    /\ call.op = "answer_poll"
    /\ call.exc = "IndexError"
    /\ Submissions # <<>>
    /\ ~run_forever
    /\ pc = "is_open"

\* The positions of run inside its `while True` loop.
CyclePcs == {"is_open", "sleep_delay", "sleep_wait", "answer_poll"}

\* C13: run logs in once and registers with the channel once, in this
\* order and before the first status check, and does neither again, also
\* after a swallowed exception; no step of the loop (status check, sleep,
\* answer_poll with its clear_responses) changes auth_token or
\* firehose_token.
C13_LoginAndConnectOnce ==
    [][/\ n_login' <= 1
       /\ n_connect' <= n_login'
       /\ call'.op \in {"is_open", "answer_poll"} => (n_login' = 1 /\ n_connect' = 1)
       /\ pc \in CyclePcs =>
             UNCHANGED <<n_login, n_connect, auth_token, firehose_token>>]_vars

\* answer_poll raised, the exception was swallowed, and run stands at the
\* next status check with the one login and the one registration behind it.
C13_Witness ==
    /\ call.op = "answer_poll"
    /\ call.exc = "KeyError"
    /\ pc = "is_open"
    /\ n_login = 1
    /\ n_connect = 1
    /\ auth_token # None

\* C14: whenever run is about to issue a status check that is not its first
\* one, it has slept the inter-check delay since the check before, unless a
\* submission was sent in between; a check that raised a swallowed
\* exception makes no difference.
C14_DelayBetweenChecks ==
    pc = "is_open" => since_check \cap {"connect", "delay", "submit"} # {}

\* The last status check was skipped as a check of the stored poll.
SkippedAsPrevious ==
    /\ call.op = "is_open"
    /\ ignore_prev_polls
    /\ call.env.tag = "uid"
    /\ call.env.uid = call.uid0
    /\ call.ret = "false"

\* C15: whenever is_open returns false because the observed uid equals the
\* stored one (ignore_prev_polls = true), the session has already sent a
\* submission for that uid.
C15_SkippedPollWasAnswered ==
    SkippedAsPrevious => call.env.uid \in submitted

\* C16: with ignore_prev_polls = true, a submission never carries the uid of
\* the submission sent before it.
C16_NoRepeatedSubmission ==
    [][(/\ ignore_prev_polls
        /\ pc = "answer_poll"
        /\ SubmittedUids(call'.log) # {}) => last_sub' # last_sub]_vars

\* C17 as stated: with run_forever = false, once a submission request has
\* been sent run has returned, so that no further detection cycle (and no
\* second submission) follows it.
C17_StopsAfterSubmission ==
    (~run_forever /\ submitted # {}) => pc = "returned"

\* C17, amended: with run_forever = false, run returns right after the
\* first answer_poll call that returns normally and takes no further step;
\* an answer_poll call that raises, before or after its submission request,
\* keeps run in the loop.
C17_StopsAfterCompletedAnswer ==
    (~run_forever /\ call.op = "answer_poll") =>
        /\ call.exc = "none" => (pc = "returned" /\ ~ENABLED Next)
        /\ call.exc # "none" => pc = "is_open"

\* run, told to answer once, has returned after a call that submitted.
C17_Witness ==
    /\ ~run_forever
    /\ call.op = "answer_poll"
    /\ call.exc = "none"
    /\ Submissions # <<>>
    /\ pc = "returned"

\* C18: answer_poll is entered only after a status check that returned true
\* and, when wait_to_respond is not 0, after the grace sleep that follows
\* that check; it answers the uid stored by that check, so every submission
\* carries that uid.
C18_SubmissionFollowsPositiveCheck ==
    /\ pc \in {"sleep_wait", "answer_poll"} =>
          /\ call.op = "is_open"
          /\ call.ret = "true"
          /\ uid = call.uid1
    /\ pc = "answer_poll" => (wait_to_respond # 0 <=> "wait" \in since_check)
    /\ pc = "sleep_wait" => (wait_to_respond # 0 /\ since_check = {})
    /\ call.op = "answer_poll" =>
          /\ uid = call.uid0
          /\ wait_to_respond # 0 => "wait" \in since_check
          /\ \A i \in DOMAIN Submissions : Submissions[i].uid = call.uid0

\* A submission sent after the grace sleep, for the uid of the session.
C18_Witness ==
    /\ call.op = "answer_poll"
    /\ wait_to_respond # 0
    /\ "wait" \in since_check
    /\ Len(Submissions) = 1
    /\ Submissions[1].uid = uid

\* The positions in the last call's log of the requests of the given kinds.
Positions(kinds) ==
    {i \in DOMAIN call.log : call.log[i].kind \in kinds}

\* The response list was fetched by the last answer_poll call and had entries.
ListedResponses ==
    call.env.clist.tag = "ok" /\ call.env.clist.ids # <<>>

\* C19: clear_responses sends the delete-override request exactly when the
\* response list it fetched is non-empty, then once and for the id of the
\* first listed response; answer_poll(clear_responses = true) fetches the
\* poll detail and submits only after the clearing has completed, and
\* answer_poll(clear_responses = false) sends no list or delete request.
C19_ClearsFirstListedResponse ==
    call.op = "answer_poll" =>
        LET lists == Positions({"RESPONSE_UID"})
            dels == Positions({"POLL_RESULTS"})
            later == Positions({"POLLEV_INFO", "SEND_RESPONSE"})
        IN  /\ ~clear_responses => (lists = {} /\ dels = {})
            /\ clear_responses =>
                  /\ dels # {} <=> ListedResponses
                  /\ Cardinality(dels) <= 1
                  /\ Cardinality(lists) <= 1
                  /\ \A i \in dels :
                        /\ call.log[i].arg = call.env.clist.ids[1]
                        /\ \E j \in lists : j < i
                  /\ later # {} =>
                        /\ lists # {}
                        /\ call.env.clist.tag = "ok"
                        /\ ListedResponses => call.env.cdel = "ok"
                        /\ \A i \in lists \cup dels, j \in later : i < j

\* Two responses were listed, the first was deleted and the submission sent.
C19_Witness ==
    /\ call.op = "answer_poll"
    /\ clear_responses
    /\ Len(call.env.clist.ids) = 2
    /\ Positions({"POLL_RESULTS"}) # {}
    /\ Submissions # <<>>

\* C20: every is_open call issues one request, to the token-bearing status
\* endpoint exactly when firehose_token is neither null nor empty and to the
\* token-less one otherwise; a registration that returns a null token does
\* not fail and leaves run at the first status check.
C20_OneStatusRequest ==
    /\ call.op = "is_open" =>
          /\ Len(call.log) = 1
          /\ call.log[1].kind = IF firehose_token \in {None, ""}
                                THEN "NO_TOKEN_UID" ELSE "TOKEN_UID"
    /\ (call.op = "connect_to_channel" /\ call.env.reg = "null") =>
          /\ call.exc = "none"
          /\ firehose_token = None
          /\ pc = "is_open"

\* A status check made with the empty token of the registration.
C20_Witness ==
    /\ call.op = "is_open"
    /\ firehose_token = ""
    /\ call.log[1].kind = "NO_TOKEN_UID"

====
